---------------------------- MODULE Spec2Model ----------------------------
(***************************************************************************)
(* A model of the hysteria tunnel server (pkg/core/server.go) and of the   *)
(* SOCKS5 front-end (pkg/socks5/server.go).                                *)
(*                                                                         *)
(* Strings that the code parses or builds (addresses, hosts, ports) are    *)
(* sequences of one-character strings, so that net.SplitHostPort,          *)
(* net.JoinHostPort and strconv.Itoa are computed character by character.  *)
(* Strings the code only passes around (messages, tokens, errors) are TLA+ *)
(* strings.                                                                *)
(***************************************************************************)
EXTENDS Integers, Sequences, FiniteSets, TLC

(***************************************************************************)
(* Bounds of the model.                                                    *)
(***************************************************************************)
\* Rates (bytes per second) range over 0..MaxRate; 0 is "unbounded" for a
\* server ceiling and invalid for a client request.
MaxRate == 2
\* Number of streams the peer opens on the session after the control stream.
MaxStreams == 2

Rates == 0..MaxRate
StreamIds == 1..MaxStreams

(***************************************************************************)
(* Character-level string helpers.                                         *)
(***************************************************************************)
Digits == <<"0", "1", "2", "3", "4", "5", "6", "7", "8", "9">>

\* The index of the first occurrence of character c in s, 0 when absent
\* (Go's IndexByteString returns -1; positions here are 1-based).
IndexByte(s, c) ==
  IF \E i \in 1..Len(s) : s[i] = c
  THEN CHOOSE i \in 1..Len(s) : s[i] = c /\ \A j \in 1..(i - 1) : s[j] # c
  ELSE 0

\* The index of the last occurrence of character c in s, 0 when absent.
LastIndexByte(s, c) ==
  IF \E i \in 1..Len(s) : s[i] = c
  THEN CHOOSE i \in 1..Len(s) : s[i] = c /\ \A j \in (i + 1)..Len(s) : s[j] # c
  ELSE 0

\* s[from..] (1-based, inclusive); empty when from > Len(s).
Suffix(s, from) == SubSeq(s, from, Len(s))

\* net.SplitHostPort: [host, port, err]; err is "nil" on success.
AddrErr(why) == [host |-> <<>>, port |-> <<>>, err |-> why]

SplitHostPort(hostport) ==
  LET i == LastIndexByte(hostport, ":")
  IN
  IF i = 0 THEN AddrErr("missing port in address")
  ELSE
    IF hostport[1] = "["
    THEN
      LET end == IndexByte(hostport, "]")
          host == SubSeq(hostport, 2, end - 1)
      IN
      IF end = 0 THEN AddrErr("missing ']' in address")
      ELSE IF end = Len(hostport) THEN AddrErr("missing port in address")
      ELSE IF end + 1 # i
           THEN IF hostport[end + 1] = ":"
                THEN AddrErr("too many colons in address")
                ELSE AddrErr("missing port in address")
      ELSE IF IndexByte(Suffix(hostport, 2), "[") # 0
           THEN AddrErr("unexpected '[' in address")
      ELSE IF IndexByte(Suffix(hostport, end + 1), "]") # 0
           THEN AddrErr("unexpected ']' in address")
      ELSE [host |-> host, port |-> Suffix(hostport, i + 1), err |-> "nil"]
    ELSE
      LET host == SubSeq(hostport, 1, i - 1)
      IN
      IF IndexByte(host, ":") # 0 THEN AddrErr("too many colons in address")
      ELSE IF IndexByte(hostport, "[") # 0
           THEN AddrErr("unexpected '[' in address")
      ELSE IF IndexByte(hostport, "]") # 0
           THEN AddrErr("unexpected ']' in address")
      ELSE [host |-> host, port |-> Suffix(hostport, i + 1), err |-> "nil"]

\* net.JoinHostPort: a host holding a colon is put in brackets.
JoinHostPort(host, port) ==
  IF IndexByte(host, ":") # 0
  THEN <<"[">> \o host \o <<"]", ":">> \o port
  ELSE host \o <<":">> \o port


\* strconv.Itoa for n >= 0.
RECURSIVE Itoa(_)
Itoa(n) == IF n < 10 THEN <<Digits[n + 1]>> ELSE Itoa(n \div 10) \o <<Digits[(n % 10) + 1]>>

IsDigit(c) == \E d \in 1..10 : Digits[d] = c

DigitVal(c) == (CHOOSE d \in 1..10 : Digits[d] = c) - 1

\* The decimal value of a non-empty sequence of digits.
RECURSIVE Atoi(_)
Atoi(s) == IF Len(s) = 0 THEN 0 ELSE Atoi(SubSeq(s, 1, Len(s) - 1)) * 10 + DigitVal(s[Len(s)])

\* s cut at every occurrence of character c.
RECURSIVE Split(_, _)
Split(s, c) ==
  LET i == IndexByte(s, c)
  IN IF i = 0 THEN <<s>> ELSE <<SubSeq(s, 1, i - 1)>> \o Split(Suffix(s, i + 1), c)

\* net.ParseIP, as a recogniser of the textual forms: dotted decimal IPv4
\* (four fields of one to three digits, each at most 255), and for IPv6 the
\* forms written with colons and hexadecimal digits only.
HexLetters == {"a", "b", "c", "d", "e", "f"}

IsIPv4(s) ==
  LET parts == Split(s, ".")
  IN /\ Len(parts) = 4
     /\ \A k \in 1..4 :
          /\ Len(parts[k]) \in 1..3
          /\ \A j \in 1..Len(parts[k]) : IsDigit(parts[k][j])
          /\ Atoi(parts[k]) <= 255

IsIPv6(s) ==
  /\ IndexByte(s, ":") # 0
  /\ Len(s) >= 2
  /\ \A j \in 1..Len(s) : s[j] = ":" \/ IsDigit(s[j]) \/ s[j] \in HexLetters

\* ip != nil after ip := net.ParseIP(host)
ParseIP(host) == IsIPv4(host) \/ IsIPv6(host)

(***************************************************************************)
(* Values of the collaborators that are outside this repository's core.    *)
(***************************************************************************)
\* acl.Action: the four actions, and one value that is none of them.
ActionDirect == "ActionDirect"
ActionProxy == "ActionProxy"
ActionBlock == "ActionBlock"
ActionHijack == "ActionHijack"
ActionOther == "ActionOther"

\* Hosts an ACL rule can redirect to (the argument of a Hijack decision).
HijackArgs == { <<":", ":", "2">> }

\* What acl.Engine.Lookup can return: (action, arg).
ACLResults ==
  { [action |-> a, arg |-> <<>>] : a \in {ActionDirect, ActionProxy, ActionBlock, ActionOther} }
  \cup { [action |-> ActionHijack, arg |-> h] : h \in HijackArgs }

\* The destinations a peer asks for: a domain and a literal IP, each with its
\* port.
Destinations ==
  { [host |-> <<"a">>, port |-> 80],
    [host |-> <<"1", ".", "2", ".", "3", ".", "4">>, port |-> 443] }

\* Address strings a tunnel client puts in a clientRequest: the destinations,
\* joined the way net.JoinHostPort joins host and port, and strings that are
\* no host:port pair.
GoodAddrs == { JoinHostPort(d.host, Itoa(d.port)) : d \in Destinations }
BadAddrs == { <<"a">>, <<":", ":", "1", ":", "8", "0">> }
ReqAddrs == GoodAddrs \cup BadAddrs

\* The opaque authentication token of a client hello.
Tokens == { "token" }

\* What the authentication capability can answer: (ok, msg).
AuthResults == { [ok |-> TRUE, msg |-> ""], [ok |-> FALSE, msg |-> "denied"] }

\* Errors the relay can end with ("nil" is no error).
PipeErrs == { "nil", "EOF" }

closeErrorCodeGeneric == "closeErrorCodeGeneric"
closeErrorCodeProtocol == "closeErrorCodeProtocol"
closeErrorCodeAuth == "closeErrorCodeAuth"


(***************************************************************************)
(* State.                                                                  *)
(*                                                                         *)
(* Tunnel server (pkg/core/server.go), one accepted session:               *)
(*   server   the Server's fields set by NewServer                         *)
(*   ctrlIn   what the peer does about the control stream                  *)
(*   cs       the quic.Session and the position and locals of handleClient *)
(*            and handleControlStream on it                                *)
(*   streams  per stream of the session: the position and locals of        *)
(*            handleStream / handleTCP, and what it did on the stream      *)
(***************************************************************************)
VARIABLES server, ctrlIn, cs, streams

(***************************************************************************)
(* SOCKS5 front-end (pkg/socks5/server.go), one accepted connection:       *)
(*   socks    the Server's fields set by NewServer                         *)
(*   client   the position and locals of the connection's goroutine        *)
(*            (ListenAndServe, negotiate, handle, handleTCP), and what it  *)
(*            did                                                          *)
(*   pipe     the relay started by pipePair: its two copying goroutines,   *)
(*            its error channel and the two endpoints                      *)
(*                                                                         *)
(*   entry    the listener this run's peer connects to: the two servers    *)
(*            run in different processes and share no state                *)
(***************************************************************************)
VARIABLES socks, client, pipe, entry

coreVars == <<server, ctrlIn, cs, streams>>

socksVars == <<socks, client, pipe>>

vars == <<server, ctrlIn, cs, streams, socks, client, pipe, entry>>

\* type Server struct, the fields NewServer sets (lines 51-60): the two
\* ceilings, and whether congestionFactory and aclEngine are non-nil.
Servers ==
  [sendBPS : Rates, recvBPS : Rates, congestionFactory : BOOLEAN, aclEngine : BOOLEAN]

\* What arrives on the control stream: nothing (the peer never opens it),
\* bytes that are no clientHello, or a clientHello.
NoHello == [kind |-> "none", SendBPS |-> 0, RecvBPS |-> 0, Auth |-> ""]
BadHello == [kind |-> "malformed", SendBPS |-> 0, RecvBPS |-> 0, Auth |-> ""]
ClientHellos ==
  { [kind |-> "hello", SendBPS |-> s, RecvBPS |-> r, Auth |-> t] :
      s \in Rates, r \in Rates, t \in Tokens }
ControlInputs == {NoHello, BadHello} \cup ClientHellos

\* What arrives on a stream: bytes that are no clientRequest, or a clientRequest.
BadRequest == [kind |-> "malformed", UDP |-> FALSE, Address |-> <<>>]
ClientRequests ==
  { [kind |-> "request", UDP |-> FALSE, Address |-> a] : a \in ReqAddrs }
  \cup { [kind |-> "request", UDP |-> TRUE, Address |-> <<"a", ":", "5", "3">>] }
StreamInputs == {BadRequest} \cup ClientRequests

\* A session before Serve accepts it.
InitSession ==
  [ pc |-> "Serve",
    ch |-> NoHello,
    serverSendBPS |-> 0, serverRecvBPS |-> 0,
    ok |-> FALSE, msg |-> "",
    auth |-> "",
    authCalls |-> <<>>,     \* calls of s.authFunc: (auth, sSend, sRecv)
    helloOut |-> <<>>,      \* serverHellos written on the control stream
    congestion |-> <<>>,    \* calls of cs.SetCongestionControl: the rate
    closeCalls |-> <<>>,    \* calls of cs.CloseWithError: (code, reason)
    accepted |-> 0 ]        \* streams accepted by the loop of handleClient

\* A stream the peer has not opened or the server has not accepted.
InitStream ==
  [ pc |-> "none",
    auth |-> "",
    reqAddr |-> <<>>, host |-> <<>>, port |-> <<>>, ip |-> FALSE,
    action |-> "", arg |-> <<>>,
    conn |-> <<>>,          \* the address of the outbound connection
    log |-> <<>>,           \* the events of the handler, in order
    lookups |-> <<>>,       \* calls of aclEngine.Lookup: (host, ip) and its result
    requestCalls |-> <<>>,  \* calls of s.tcpRequestFunc
    errorCalls |-> <<>>,    \* calls of s.tcpErrorFunc
    dials |-> <<>>,         \* addresses given to net.DialTimeout
    responses |-> <<>> ]    \* serverResponses packed on the stream

\* cs.CloseWithError(code, reason), after which handleClient returns.
CloseWithError(c, code, reason) ==
  [c EXCEPT !.closeCalls = Append(@, [code |-> code, reason |-> reason]),
            !.pc = "return"]


(***************************************************************************)
(* Tunnel server: Serve, handleClient, handleControlStream.                *)
(***************************************************************************)
\* Serve (lines 64-72): a session is accepted and handleClient started.
Serve ==
  /\ entry = "tunnel"
  /\ cs.pc = "Serve"
  /\ cs' = [cs EXCEPT !.pc = "AcceptControl"]
  /\ UNCHANGED <<server, ctrlIn, streams, socksVars, entry>>

\* handleClient, lines 80-86: the control stream is awaited under
\* protocolTimeout; a peer that never opens it makes AcceptStream fail.
handleClient_AcceptControl ==
  /\ cs.pc = "AcceptControl"
  /\ cs' = IF ctrlIn.kind = "none"
           THEN CloseWithError(cs, closeErrorCodeProtocol, "protocol error")
           ELSE [cs EXCEPT !.pc = "Unpack"]
  /\ UNCHANGED <<server, ctrlIn, streams, socksVars, entry>>

\* The zero-rate test with the receive rate forgotten.
InvalidRate_SendOnly(ch) == ch.SendBPS = 0

\* handleControlStream, line 116: the rates a client may not ask for.
InvalidRate(ch) == ch.SendBPS = 0 \/ ch.RecvBPS = 0

\* The clamp with the test for a configured ceiling forgotten.
ClampRate_ZeroCeiling(requested, ceiling) ==
  IF requested > ceiling THEN ceiling ELSE requested

\* handleControlStream, lines 119-125: a requested rate under the server's
\* ceiling for that direction; a ceiling of 0 is no ceiling.
ClampRate(requested, ceiling) ==
  IF ceiling > 0 /\ requested > ceiling THEN ceiling ELSE requested

\* handleControlStream, lines 110-125, and its error return to handleClient,
\* lines 89-92: the hello is read, a zero rate refused, the rates clamped.
handleControlStream_Unpack ==
  /\ cs.pc = "Unpack"
  /\ cs' = IF ctrlIn.kind = "malformed"
           THEN CloseWithError(cs, closeErrorCodeProtocol, "protocol error")
           ELSE IF InvalidRate(ctrlIn)
           THEN CloseWithError([cs EXCEPT !.ch = ctrlIn],
                               closeErrorCodeProtocol, "protocol error")
           ELSE [cs EXCEPT !.ch = ctrlIn,
                           !.serverSendBPS = ClampRate(ctrlIn.RecvBPS, server.sendBPS),
                           !.serverRecvBPS = ClampRate(ctrlIn.SendBPS, server.recvBPS),
                           !.pc = "Auth"]
  /\ UNCHANGED <<server, ctrlIn, streams, socksVars, entry>>

\* handleControlStream, line 127: the authentication capability answers.
handleControlStream_Auth ==
  /\ cs.pc = "Auth"
  /\ \E r \in AuthResults :
       cs' = [cs EXCEPT !.ok = r.ok, !.msg = r.msg,
                        !.authCalls = Append(@, [auth |-> cs.ch.Auth,
                                                 sSend |-> cs.serverSendBPS,
                                                 sRecv |-> cs.serverRecvBPS]),
                        !.pc = "Pack"]
  /\ UNCHANGED <<server, ctrlIn, streams, socksVars, entry>>

\* A serverHello that accepts whatever the authentication capability said.
ServerHello_Accepting(c) ==
  [OK |-> TRUE, SendBPS |-> c.serverSendBPS, RecvBPS |-> c.serverRecvBPS, Message |-> c.msg]

\* handleControlStream, lines 129-136: the serverHello that is packed.
ServerHello(c) ==
  [OK |-> c.ok, SendBPS |-> c.serverSendBPS, RecvBPS |-> c.serverRecvBPS, Message |-> c.msg]

\* handleControlStream, lines 129-139, and its error return to handleClient,
\* lines 89-92: the serverHello is written, or the write fails.
handleControlStream_Pack ==
  /\ cs.pc = "Pack"
  /\ \E written \in BOOLEAN :
       cs' = IF written
             THEN [cs EXCEPT !.helloOut = Append(@, ServerHello(cs)), !.pc = "SetCongestion"]
             ELSE CloseWithError(cs, closeErrorCodeProtocol, "protocol error")
  /\ UNCHANGED <<server, ctrlIn, streams, socksVars, entry>>

\* handleControlStream, lines 141-143: the congestion control is set.
SetCongestionControl(c) ==
  IF c.ok /\ server.congestionFactory
  THEN [c EXCEPT !.congestion = Append(@, c.serverSendBPS)]
  ELSE c

\* handleClient going on to serve without the test of ok.
AfterControlStream_Unchecked(c) == [c EXCEPT !.auth = c.ch.Auth, !.pc = "AcceptStream"]

\* handleClient, lines 88-97, after handleControlStream returned no error:
\* a rejected client is closed with the auth code, an accepted one is served.
AfterControlStream(c) ==
  IF ~c.ok
  THEN CloseWithError(c, closeErrorCodeAuth, "auth error")
  ELSE [c EXCEPT !.auth = c.ch.Auth, !.pc = "AcceptStream"]

\* handleControlStream, lines 141-144, and handleClient, lines 88-97.
handleControlStream_Return ==
  /\ cs.pc = "SetCongestion"
  /\ cs' = AfterControlStream(SetCongestionControl(cs))
  /\ UNCHANGED <<server, ctrlIn, streams, socksVars, entry>>

\* handleClient, lines 98-104: the loop accepts a stream of the session and
\* starts handleStream on it.
handleClient_AcceptStream ==
  /\ cs.pc = "AcceptStream"
  /\ cs.accepted < MaxStreams
  /\ cs' = [cs EXCEPT !.accepted = @ + 1]
  /\ streams' = [streams EXCEPT ![cs.accepted + 1] =
                   [@ EXCEPT !.pc = "Unpack", !.auth = cs.auth]]
  /\ UNCHANGED <<server, ctrlIn, socksVars, entry>>

\* handleClient, lines 99-105: AcceptStream fails (the peer closed, a
\* transport error, the idle timeout); the loop ends and the session is
\* closed with the generic code.
handleClient_AcceptStreamError ==
  /\ cs.pc = "AcceptStream"
  /\ cs' = CloseWithError(cs, closeErrorCodeGeneric, "")
  /\ UNCHANGED <<server, ctrlIn, streams, socksVars, entry>>


(***************************************************************************)
(* Tunnel server: handleStream, handleTCP.  st is the record of a stream.  *)
(***************************************************************************)
Logged(st, event) == [st EXCEPT !.log = Append(@, event)]

\* _ = struc.Pack(stream, &serverResponse{OK, Message}) on a stream: the
\* handler discards the error of the write ("_").
Pack(st, ok, message) ==
  Logged([st EXCEPT !.responses =
            Append(@, [OK |-> ok, Message |-> message, err |-> "_"])], "Pack")

\* s.tcpRequestFunc(remoteAddr, auth, reqAddr, action, arg), line 183.
tcpRequestFunc(st) ==
  Logged([st EXCEPT !.requestCalls =
            Append(@, [auth |-> st.auth, reqAddr |-> st.reqAddr,
                       action |-> st.action, arg |-> st.arg])],
         "tcpRequestFunc")

\* s.tcpErrorFunc(remoteAddr, auth, reqAddr, err).
tcpErrorFunc(st, err) ==
  Logged([st EXCEPT !.errorCalls =
            Append(@, [auth |-> st.auth, reqAddr |-> st.reqAddr, err |-> err])],
         "tcpErrorFunc")

\* A return of handleTCP and then of handleStream: the deferred conn.Close()
\* (line 222, once a connection exists) and stream.Close() (line 148) run.
Return(st) ==
  LET c == IF st.conn # <<>> THEN Logged(st, "conn.Close") ELSE st
  IN [Logged(c, "stream.Close") EXCEPT !.pc = "done"]

\* handleStream, lines 148-162: the request is read; a TCP request goes to
\* handleTCP, a UDP request is not served, a read error ends the handler.
handleStream_Unpack(i) ==
  /\ streams[i].pc = "Unpack"
  /\ \E in \in StreamInputs :
       LET st == Logged(streams[i], "Unpack")
       IN streams' = [streams EXCEPT ![i] =
            IF in.kind = "malformed" \/ in.UDP
            THEN Return(st)
            ELSE [st EXCEPT !.reqAddr = in.Address, !.pc = "Split"]]
  /\ UNCHANGED <<server, ctrlIn, cs, socksVars, entry>>

\* handleTCP, lines 165-178: the address is split; an address that does not
\* split is refused; the host of an IP request is cleared.
handleTCP_Split(i) ==
  /\ streams[i].pc = "Split"
  /\ LET st == streams[i]
         r == SplitHostPort(st.reqAddr)
     IN streams' = [streams EXCEPT ![i] =
          IF r.err # "nil"
          THEN Return(tcpErrorFunc(Pack(st, FALSE, "invalid address"), r.err))
          ELSE [st EXCEPT !.host = IF ParseIP(r.host) THEN <<>> ELSE r.host,
                          !.ip = ParseIP(r.host),
                          !.port = r.port,
                          !.pc = "Lookup"]]
  /\ UNCHANGED <<server, ctrlIn, cs, socksVars, entry>>

\* action, arg := acl.ActionDirect, "", line 179.
DefaultAction == [action |-> ActionDirect, arg |-> <<>>]

\* handleTCP, lines 179-183: the decision is Direct without an ACL engine and
\* the engine's otherwise; it is reported to the request hook.
handleTCP_Lookup(i) ==
  /\ streams[i].pc = "Lookup"
  /\ \E r \in ACLResults :
       LET st == streams[i]
           decided ==
             IF server.aclEngine
             THEN [st EXCEPT !.action = r.action, !.arg = r.arg,
                             !.lookups = Append(@, [host |-> st.host, ip |-> st.ip,
                                                    action |-> r.action, arg |-> r.arg])]
             ELSE [st EXCEPT !.action = DefaultAction.action, !.arg = DefaultAction.arg]
       IN streams' = [streams EXCEPT ![i] = [tcpRequestFunc(decided) EXCEPT !.pc = "Switch"]]
  /\ UNCHANGED <<server, ctrlIn, cs, socksVars, entry>>

\* A dial whose failure is answered but not reported to the error hook.
DialTimeout_Unreported(st, addr, connected) ==
  LET d == Logged([st EXCEPT !.dials = Append(@, addr)], "Dial")
  IN IF connected
     THEN [d EXCEPT !.conn = addr, !.pc = "Pack"]
     ELSE Return(Pack(d, FALSE, "dial error"))

\* net.DialTimeout("tcp", addr, dialTimeout) and the handling of its error,
\* lines 188-196 and 205-213.
DialTimeout(st, addr, connected) ==
  LET d == Logged([st EXCEPT !.dials = Append(@, addr)], "Dial")
  IN IF connected
     THEN [d EXCEPT !.conn = addr, !.pc = "Pack"]
     ELSE Return(tcpErrorFunc(Pack(d, FALSE, "dial error"), "dial error"))

\* The hijack address put together without net.JoinHostPort.
hijackAddr_Concat(arg, port) == arg \o <<":">> \o port

\* handleTCP, line 204: the address dialed for a Hijack decision.
hijackAddr(arg, port) == JoinHostPort(arg, port)

\* The switch with Block falling into the case of Direct and Proxy.
Switch_BlockDials(st, connected) ==
  CASE st.action \in {ActionDirect, ActionProxy, ActionBlock} ->
         DialTimeout(st, st.reqAddr, connected)
    [] st.action = ActionHijack -> DialTimeout(st, JoinHostPort(st.arg, st.port), connected)
    [] OTHER -> Return(Pack(st, FALSE, "ACL error"))

\* handleTCP, lines 186-220: the switch on the action.
Switch(st, connected) ==
  CASE st.action \in {ActionDirect, ActionProxy} -> DialTimeout(st, st.reqAddr, connected)
    [] st.action = ActionBlock -> Return(Pack(st, FALSE, "blocked by ACL"))
    [] st.action = ActionHijack -> DialTimeout(st, hijackAddr(st.arg, st.port), connected)
    [] OTHER -> Return(Pack(st, FALSE, "ACL error"))

handleTCP_Switch(i) ==
  /\ streams[i].pc = "Switch"
  /\ \E connected \in BOOLEAN :
       streams' = [streams EXCEPT ![i] = Switch(streams[i], connected)]
  /\ UNCHANGED <<server, ctrlIn, cs, socksVars, entry>>

\* The accepting response written with its error discarded.
PackOK_Unchecked(st, written) ==
  [Logged([st EXCEPT !.responses =
             Append(@, [OK |-> TRUE, Message |-> "",
                        err |-> IF written THEN "nil" ELSE "write error"])], "Pack")
     EXCEPT !.pc = "Pipe"]

\* handleTCP, lines 222-228: the accepting response is written; when the
\* write fails the handler returns.
PackOK(st, written) ==
  LET err == IF written THEN "nil" ELSE "write error"
      p == Logged([st EXCEPT !.responses =
                     Append(@, [OK |-> TRUE, Message |-> "", err |-> err])], "Pack")
  IN IF err # "nil" THEN Return(p) ELSE [p EXCEPT !.pc = "Pipe"]

handleTCP_Pack(i) ==
  /\ streams[i].pc = "Pack"
  /\ \E written \in BOOLEAN :
       streams' = [streams EXCEPT ![i] = PackOK(streams[i], written)]
  /\ UNCHANGED <<server, ctrlIn, cs, socksVars, entry>>

\* handleTCP, lines 229-230: the relay runs until it ends with an error or
\* none, which is reported to the error hook.
Pipe2Way(st, err) == Return(tcpErrorFunc(Logged(st, "Pipe2Way"), err))

\* A handleTCP that closes the session when the relay ends.
handleTCP_Pipe_ClosingSession(i) ==
  /\ streams[i].pc = "Pipe"
  /\ \E err \in PipeErrs :
       streams' = [streams EXCEPT ![i] = Pipe2Way(streams[i], err)]
  /\ cs' = CloseWithError(cs, closeErrorCodeGeneric, "")
  /\ UNCHANGED <<server, ctrlIn, socksVars, entry>>

\* handleTCP, lines 229-230, as a step of the handler of stream i.
handleTCP_Pipe(i) ==
  /\ streams[i].pc = "Pipe"
  /\ \E err \in PipeErrs :
       streams' = [streams EXCEPT ![i] = Pipe2Way(streams[i], err)]
  /\ UNCHANGED <<server, ctrlIn, cs, socksVars, entry>>


(***************************************************************************)
(* SOCKS5 front-end: values of github.com/txthinking/socks5.               *)
(***************************************************************************)
MethodNone == "MethodNone"
MethodUsernamePassword == "MethodUsernamePassword"
MethodUnsupportAll == "MethodUnsupportAll"
UserPassStatusSuccess == "UserPassStatusSuccess"
UserPassStatusFailure == "UserPassStatusFailure"
CmdConnect == "CmdConnect"
CmdBind == "CmdBind"
CmdUDP == "CmdUDP"
ATYPIPv4 == "ATYPIPv4"
ATYPDomain == "ATYPDomain"
RepSuccess == "RepSuccess"
RepServerFailure == "RepServerFailure"
RepHostUnreachable == "RepHostUnreachable"
RepCommandNotSupported == "RepCommandNotSupported"

\* Largest number of bytes an endpoint of a relay delivers.
MaxBytes == 2

\* The bytes an endpoint of a relay has to deliver, in order.
PipeBytes == [k \in 1..MaxBytes |-> k]

\* type Server struct, the fields NewServer sets (lines 48-62): Method is
\* MethodUsernamePassword exactly when an AuthFunc is given.
SocksServers ==
  [Method : {MethodNone, MethodUsernamePassword}, TCPTimeout : {0, 1}, ACLEngine : BOOLEAN]

\* A server that was not constructed in this run.
NoSocksServer == [Method |-> MethodNone, TCPTimeout |-> 0, ACLEngine |-> FALSE]
NoServer == [sendBPS |-> 0, recvBPS |-> 0, congestionFactory |-> FALSE, aclEngine |-> FALSE]

\* The method lists a client offers in its negotiation request.
MethodLists == { <<MethodNone>>, <<MethodUsernamePassword>>, <<MethodNone, MethodUsernamePassword>> }

\* The requests a client sends: a command, an address type, the address
\* bytes and the port, two bytes in network order.  The first byte of a
\* domain address is its length, written "#" here.
NoRequest == [Cmd |-> "", Atyp |-> "", DstAddr |-> <<>>, DstPort |-> <<0, 0>>]
SocksRequests ==
  { [Cmd |-> cmd, Atyp |-> ATYPDomain, DstAddr |-> <<"#", "a">>, DstPort |-> <<0, 80>>] :
      cmd \in {CmdConnect, CmdBind, CmdUDP} }
  \cup { [Cmd |-> CmdConnect, Atyp |-> ATYPIPv4, DstAddr |-> <<1, 2, 3, 4>>, DstPort |-> <<1, 187>>] }

\* binary.BigEndian.Uint16
Uint16(b) == b[1] * 256 + b[2]

\* net.IP(b).String() for the four bytes of an IPv4 address.
IPString(b) ==
  Itoa(b[1]) \o <<".">> \o Itoa(b[2]) \o <<".">> \o Itoa(b[3]) \o <<".">> \o Itoa(b[4])

\* parseRequestAddress, lines 217-225.
parseRequestAddress(r) ==
  LET p == Itoa(Uint16(r.DstPort))
  IN IF r.Atyp = ATYPDomain
     THEN LET d == Tail(r.DstAddr)
          IN [domain |-> d, ip |-> <<>>, port |-> p, addr |-> JoinHostPort(d, p)]
     ELSE [domain |-> <<>>, ip |-> r.DstAddr, port |-> p,
           addr |-> JoinHostPort(IPString(r.DstAddr), p)]

\* The two copying goroutines of pipePair, and the endpoint each reads from
\* and writes to.
Dirs == {"TCPToStream", "StreamToTCP"}
Src(d) == IF d = "TCPToStream" THEN "conn" ELSE "stream"
Dst(d) == IF d = "TCPToStream" THEN "stream" ELSE "conn"

\* A connection before the listener accepts it.
InitConn ==
  [ pc |-> "Accept",
    methods |-> <<>>,       \* the methods of the negotiation request read
    writes |-> <<>>,        \* the replies negotiate and sendReply write to the
                            \* client: every WriteTo called, in order
    authFuncCalls |-> <<>>, \* calls of s.AuthFunc: what each returned
    negotiateErr |-> "nil", \* the error negotiate returned
    r |-> NoRequest,
    domain |-> <<>>, ip |-> <<>>, port |-> <<>>, addr |-> <<>>,
    action |-> "", arg |-> <<>>,
    closeErr |-> "nil",
    rc |-> <<>>,            \* the address of the outbound connection
    log |-> <<>>,           \* the events of handleTCP, in order
    lookups |-> <<>>,       \* calls of ACLEngine.Lookup: (domain, ip) and its result
    requestCalls |-> <<>>,  \* calls of s.TCPRequestFunc
    errorCalls |-> <<>>,    \* calls of s.TCPErrorFunc
    dials |-> <<>> ]        \* outbound dials: (via, addr)

\* No relay.
InitPipe ==
  [ pc |-> [d \in Dirs |-> "idle"],
    buf |-> [d \in Dirs |-> <<>>],      \* buf[:rn] of the goroutine
    rerr |-> [d \in Dirs |-> "nil"],    \* the error of its last Read
    err |-> [d \in Dirs |-> "nil"],     \* the error it is sending
    read |-> [d \in Dirs |-> <<>>],     \* every byte it has read
    errChan |-> <<>>,
    sent |-> <<>>,                      \* every send on errChan: who, what
    in |-> [conn |-> <<>>, stream |-> <<>>],   \* bytes the endpoint can still deliver
    out |-> [conn |-> <<>>, stream |-> <<>>],  \* bytes written to the endpoint
    closed |-> [conn |-> FALSE, stream |-> FALSE] ]

(***************************************************************************)
(* SOCKS5 front-end: ListenAndServe, negotiate, handle.  cn is the record  *)
(* of a connection.                                                        *)
(***************************************************************************)
\* A write of negotiate or sendReply to the client.
Wrote(cn, type, value) == [cn EXCEPT !.writes = Append(@, [t |-> type, v |-> value])]

\* The goroutine of the connection returns: the deferred c.Close() runs
\* (line 122).
Closed(cn) == [Logged(cn, "c.Close") EXCEPT !.pc = "done"]

\* A return of the goroutine that leaves the client connection open.
ClosedPipe_LeftOpen(pp) == pp

\* c.Close(), line 122, seen from the relay: the client connection is closed.
ClosedPipe(pp) == [pp EXCEPT !.closed.conn = TRUE]

\* negotiate returns an error and the goroutine returns, lines 128-130.
Failed(cn, err) == Closed([cn EXCEPT !.negotiateErr = err])

\* ListenAndServe, lines 117-121: a connection is accepted and its
\* goroutine started.
ListenAndServe_Accept ==
  /\ entry = "socks"
  /\ client.pc = "Accept"
  /\ client' = [client EXCEPT !.pc = "SetDeadline"]
  /\ UNCHANGED <<coreVars, socks, pipe, entry>>

\* ListenAndServe, lines 123-127: with a timeout the deadline of the
\* connection is set, and the goroutine returns when that fails.
ListenAndServe_SetDeadline ==
  /\ client.pc = "SetDeadline"
  /\ \E set \in BOOLEAN :
       IF socks.TCPTimeout # 0 /\ ~set
       THEN client' = Closed(client) /\ pipe' = ClosedPipe(pipe)
       ELSE client' = [client EXCEPT !.pc = "negotiate"] /\ pipe' = pipe
  /\ UNCHANGED <<coreVars, socks, entry>>

\* negotiate, lines 71-77: the configured method is among the offered ones.
Got(methods) == \E j \in 1..Len(methods) : methods[j] = socks.Method

\* A negotiate that ends after the unsupported-methods reply.
negotiate_Aborting(cn, methods, w1, w2) ==
  LET asked == [cn EXCEPT !.methods = methods]
      chosen == Wrote(asked, "NegotiationReply", socks.Method)
  IN IF ~Got(methods)
     THEN Failed(Wrote(asked, "NegotiationReply", MethodUnsupportAll),
                 IF w1 THEN "unsupported" ELSE "write error")
     ELSE IF ~w2 THEN Failed(chosen, "write error")
     ELSE [chosen EXCEPT !.pc = IF socks.Method = MethodUsernamePassword
                                THEN "userpass" ELSE "request"]

\* negotiate, lines 67-88, once the offered methods are read: when the
\* configured method is not among them the unsupported-methods reply is
\* written (w1: the write succeeds); the reply choosing the configured
\* method is written (w2).  A failed write ends negotiate with the error, and
\* the goroutine returns (lines 128-130).
negotiate(cn, methods, w1, w2) ==
  LET asked == [cn EXCEPT !.methods = methods]
      unsupported == IF Got(methods) THEN asked
                     ELSE Wrote(asked, "NegotiationReply", MethodUnsupportAll)
      chosen == Wrote(unsupported, "NegotiationReply", socks.Method)
  IN IF ~Got(methods) /\ ~w1 THEN Failed(unsupported, "write error")
     ELSE IF ~w2 THEN Failed(chosen, "write error")
     ELSE [chosen EXCEPT !.pc = IF socks.Method = MethodUsernamePassword
                                THEN "userpass" ELSE "request"]

\* negotiate, lines 67-88; a failed read of the negotiation request ends it.
negotiate_Methods ==
  /\ client.pc = "negotiate"
  /\ \E read \in BOOLEAN, methods \in MethodLists, w1 \in BOOLEAN, w2 \in BOOLEAN :
       LET next == IF read THEN negotiate(client, methods, w1, w2)
                   ELSE Failed(client, "read error")
       IN /\ client' = next
          /\ pipe' = IF next.pc = "done" THEN ClosedPipe(pipe) ELSE pipe
  /\ UNCHANGED <<coreVars, socks, entry>>

\* A refused client that is sent the failure status and served all the same.
ErrUserPassAuth_Ignored(cn, written) ==
  [Wrote(cn, "UserPassNegotiationReply", UserPassStatusFailure) EXCEPT !.pc = "request"]

\* negotiate, lines 95-100: a client s.AuthFunc refuses is sent the failure
\* status and negotiate ends with the write's error or ErrUserPassAuth; the
\* goroutine returns (lines 128-130).
ErrUserPassAuth(cn, written) ==
  Failed(Wrote(cn, "UserPassNegotiationReply", UserPassStatusFailure),
         IF written THEN "ErrUserPassAuth" ELSE "write error")

\* negotiate, lines 101-104: an admitted client is sent the success status;
\* a failed write ends negotiate with the error.
Admitted(cn, written) ==
  LET w == Wrote(cn, "UserPassNegotiationReply", UserPassStatusSuccess)
  IN IF written THEN [w EXCEPT !.pc = "request"] ELSE Failed(w, "write error")

\* negotiate, lines 89-106: the credentials are read and s.AuthFunc asked.
negotiate_UserPass ==
  /\ client.pc = "userpass"
  /\ \E read \in BOOLEAN, admitted \in BOOLEAN, written \in BOOLEAN :
       LET asked == [client EXCEPT !.authFuncCalls = Append(@, admitted)]
           next == IF ~read THEN Failed(client, "read error")
                   ELSE IF ~admitted THEN ErrUserPassAuth(asked, written)
                   ELSE Admitted(asked, written)
       IN /\ client' = next
          /\ pipe' = IF next.pc = "done" THEN ClosedPipe(pipe) ELSE pipe
  /\ UNCHANGED <<coreVars, socks, entry>>

\* sendReply, lines 211-215; its callers discard the error.
sendReply(cn, rep) == Logged(Wrote(cn, "Reply", rep), "sendReply")

\* A handle that passes every command to handleTCP.
handle_EveryCommand ==
  /\ client.pc = "request"
  /\ \E read \in BOOLEAN, r \in SocksRequests :
       IF ~read
       THEN client' = Closed(client) /\ pipe' = ClosedPipe(pipe)
       ELSE client' = [client EXCEPT !.r = r, !.pc = "handleTCP"] /\ pipe' = pipe
  /\ UNCHANGED <<coreVars, socks, entry>>

\* ListenAndServe, lines 131-135, and handle, lines 140-152: the request is
\* read; CONNECT goes to handleTCP, any other command is answered
\* command-not-supported and the goroutine returns.
handle ==
  /\ client.pc = "request"
  /\ \E read \in BOOLEAN, r \in SocksRequests :
       IF ~read
       THEN client' = Closed(client) /\ pipe' = ClosedPipe(pipe)
       ELSE IF r.Cmd = CmdConnect
       THEN client' = [client EXCEPT !.r = r, !.pc = "handleTCP"] /\ pipe' = pipe
       ELSE /\ client' = Closed(sendReply([client EXCEPT !.r = r], RepCommandNotSupported))
            /\ pipe' = ClosedPipe(pipe)
  /\ UNCHANGED <<coreVars, socks, entry>>

(***************************************************************************)
(* SOCKS5 front-end: handleTCP.                                            *)
(***************************************************************************)
\* s.TCPRequestFunc(c.RemoteAddr(), addr, action, arg), line 160.
TCPRequestFunc(cn) ==
  Logged([cn EXCEPT !.requestCalls =
            Append(@, [reqAddr |-> cn.addr, action |-> cn.action, arg |-> cn.arg])],
         "TCPRequestFunc")

\* The deferred s.TCPErrorFunc(c.RemoteAddr(), addr, closeErr), lines 162-164.
TCPErrorFunc(cn) ==
  Logged([cn EXCEPT !.errorCalls = Append(@, [reqAddr |-> cn.addr, err |-> cn.closeErr])],
         "TCPErrorFunc")

\* The decision of a front-end that dials directly by default.
socks5_DefaultAction_Direct == [action |-> ActionDirect, arg |-> <<>>]

\* action, arg := acl.ActionProxy, "", line 156.
socks5_DefaultAction == [action |-> ActionProxy, arg |-> <<>>]

\* handleTCP, lines 155-164: the address is parsed; the decision is Proxy
\* without an ACL engine and the engine's otherwise; it is reported to the
\* request hook.
socks5_handleTCP_Lookup ==
  /\ client.pc = "handleTCP"
  /\ \E res \in ACLResults :
       LET a == parseRequestAddress(client.r)
           parsed == [client EXCEPT !.domain = a.domain, !.ip = a.ip,
                                    !.port = a.port, !.addr = a.addr]
           decided ==
             IF socks.ACLEngine
             THEN [parsed EXCEPT !.action = res.action, !.arg = res.arg,
                                 !.lookups = Append(@, [domain |-> a.domain, ip |-> a.ip,
                                                        action |-> res.action, arg |-> res.arg])]
             ELSE [parsed EXCEPT !.action = socks5_DefaultAction.action,
                                 !.arg = socks5_DefaultAction.arg]
       IN client' = [TCPRequestFunc(decided) EXCEPT !.pc = "Switch"]
  /\ UNCHANGED <<coreVars, socks, pipe, entry>>

\* A return of handleTCP that reports nothing to the error hook.
Refused_Unreported(cn, rep, closeErr) ==
  Closed([sendReply(cn, rep) EXCEPT !.closeErr = closeErr])

\* A return of handleTCP without an outbound connection: the deferred
\* TCPErrorFunc runs, handle returns, and the goroutine closes the connection.
Refused(cn, rep, closeErr) ==
  Closed(TCPErrorFunc([sendReply(cn, rep) EXCEPT !.closeErr = closeErr]))

\* An outbound dial (net.Dial or s.HyClient.DialTCP) and what follows it,
\* lines 168-176, 179-187, 194-202: a failed dial is answered
\* host-unreachable and handleTCP returns the error; a connection is
\* answered success and pipePair is called.
Dial(cn, via, addr, connected) ==
  LET d == Logged([cn EXCEPT !.dials = Append(@, [via |-> via, addr |-> addr])], "Dial")
  IN IF connected
     THEN [sendReply([d EXCEPT !.rc = addr], RepSuccess) EXCEPT !.pc = "pipePair"]
     ELSE Refused(d, RepHostUnreachable, "dial error")

\* handleTCP, line 194: the address dialed for a Hijack decision.
socks5_hijackAddr(arg, port) == JoinHostPort(arg, port)

\* handleTCP, lines 166-208: the switch on the action.
socks5_Switch(cn, connected) ==
  CASE cn.action = ActionDirect -> Dial(cn, "net.Dial", cn.addr, connected)
    [] cn.action = ActionProxy -> Dial(cn, "HyClient.DialTCP", cn.addr, connected)
    [] cn.action = ActionBlock -> Refused(cn, RepHostUnreachable, "blocked in ACL")
    [] cn.action = ActionHijack ->
         Dial(cn, "net.Dial", socks5_hijackAddr(cn.arg, cn.port), connected)
    [] OTHER -> Refused(cn, RepServerFailure, "unknown action")

\* pipePair, lines 228-230 and 251: the error channel is made and the two
\* goroutines are started.
StartPipe(pp) ==
  [pp EXCEPT !.pc = [d \in Dirs |-> "Read"],
             !.in = [conn |-> PipeBytes, stream |-> PipeBytes]]

socks5_handleTCP_Switch ==
  /\ client.pc = "Switch"
  /\ \E connected \in BOOLEAN :
       LET next == socks5_Switch(client, connected)
       IN /\ client' = next
          /\ pipe' = IF next.pc = "pipePair" THEN StartPipe(pipe) ELSE ClosedPipe(pipe)
  /\ UNCHANGED <<coreVars, socks, entry>>

(***************************************************************************)
(* SOCKS5 front-end: pipePair.  Each goroutine reads from its source        *)
(* endpoint and writes what it read to the other endpoint, until a read or  *)
(* a write fails; it then sends the error on errChan and ends.  The          *)
(* deadlines set when a timeout is configured (lines 233-235, 261-263) show *)
(* as reads and writes that fail.                                           *)
(***************************************************************************)
\* The error of a Read on an open endpoint: io.EOF, the peer closed.  (Any
\* other error of a Read takes the same path through the goroutine.)
ReadErrs == {"EOF"}

\* conn.Read / stream.Read, lines 236 and 254, of goroutine d: rn bytes and
\* an error or none.  A closed endpoint only fails.
AfterRead(pp, d, rn, err) ==
  LET got == SubSeq(pp.in[Src(d)], 1, rn)
      q == [pp EXCEPT !.in[Src(d)] = Suffix(@, rn + 1),
                      !.buf[d] = got,
                      !.read[d] = @ \o got,
                      !.rerr[d] = err]
  IN IF rn > 0 THEN [q EXCEPT !.pc[d] = "Write"]
     ELSE [q EXCEPT !.pc[d] = "Send", !.err[d] = err]

pipePair_Read(d) ==
  /\ pipe.pc[d] = "Read"
  /\ IF pipe.closed[Src(d)]
     THEN pipe' = AfterRead(pipe, d, 0, "closed")
     ELSE \/ \E rn \in 1..Len(pipe.in[Src(d)]) : pipe' = AfterRead(pipe, d, rn, "nil")
          \/ \E rn \in 0..Len(pipe.in[Src(d)]), err \in ReadErrs :
               pipe' = AfterRead(pipe, d, rn, err)
  /\ UNCHANGED <<coreVars, socks, client, entry>>

\* stream.Write / conn.Write of buf[:rn], lines 238-243 and 256-260, and the
\* test of the Read's error, lines 244-247 and 265-268.
AfterWrite(pp, d, werr) ==
  IF werr # "nil"
  THEN [pp EXCEPT !.pc[d] = "Send", !.err[d] = werr]
  ELSE LET q == [pp EXCEPT !.out[Dst(d)] = @ \o pp.buf[d], !.buf[d] = <<>>]
       IN IF pp.rerr[d] # "nil"
          THEN [q EXCEPT !.pc[d] = "Send", !.err[d] = pp.rerr[d]]
          ELSE [q EXCEPT !.pc[d] = "Read"]

pipePair_Write(d) ==
  /\ pipe.pc[d] = "Write"
  /\ IF pipe.closed[Dst(d)]
     THEN pipe' = AfterWrite(pipe, d, "closed")
     ELSE \E werr \in {"nil", "write error"} : pipe' = AfterWrite(pipe, d, werr)
  /\ UNCHANGED <<coreVars, socks, client, entry>>

\* make(chan error, 2), line 228.
ErrChanCap == 2

\* errChan <- err; return, lines 240-241, 245-246, 258-259, 266-267: the
\* send waits while the channel is full.
pipePair_Send(d) ==
  /\ pipe.pc[d] = "Send"
  /\ Len(pipe.errChan) < ErrChanCap
  /\ pipe' = [pipe EXCEPT !.errChan = Append(@, pipe.err[d]),
                          !.sent = Append(@, [d |-> d, err |-> pipe.err[d]]),
                          !.pc[d] = "done"]
  /\ UNCHANGED <<coreVars, socks, client, entry>>

\* A return of pipePair that takes the error off errChan and reports none.
pipePair_Return_Nil ==
  /\ client.pc = "pipePair"
  /\ pipe.errChan # <<>>
  /\ pipe' = [pipe EXCEPT !.errChan = Tail(@), !.closed.stream = TRUE]
  /\ client' = [TCPErrorFunc(Logged(Logged(client, "pipePair"), "rc.Close"))
                  EXCEPT !.pc = "Close"]
  /\ UNCHANGED <<coreVars, socks, entry>>

\* return <-errChan, line 271, and the end of handleTCP after it (lines
\* 176-177, 187-188, 202-203): closeErr is the error received, the deferred
\* rc.Close() runs, then the deferred TCPErrorFunc, and handleTCP returns.
pipePair_Return ==
  /\ client.pc = "pipePair"
  /\ pipe.errChan # <<>>
  /\ pipe' = [pipe EXCEPT !.errChan = Tail(@), !.closed.stream = TRUE]
  /\ client' = [TCPErrorFunc(Logged(Logged([client EXCEPT !.closeErr = Head(pipe.errChan)],
                                           "pipePair"), "rc.Close"))
                  EXCEPT !.pc = "Close"]
  /\ UNCHANGED <<coreVars, socks, entry>>

\* ListenAndServe, line 122, after handle returned from a relay: the deferred
\* c.Close() runs.
ListenAndServe_Close ==
  /\ client.pc = "Close"
  /\ client' = Closed(client)
  /\ pipe' = ClosedPipe(pipe)
  /\ UNCHANGED <<coreVars, socks, entry>>

(***************************************************************************)
(* Specifications.                                                         *)
(***************************************************************************)
\* The tunnel server with every configuration of the ceilings and everything
\* a peer can send on the control stream.
InitHello ==
  /\ entry = "tunnel"
  /\ server \in Servers
  /\ ctrlIn \in ControlInputs
  /\ cs = InitSession
  /\ streams = [i \in StreamIds |-> InitStream]
  /\ socks = NoSocksServer
  /\ client = InitConn
  /\ pipe = InitPipe

\* The tunnel server with the rates narrowed to what decides whether the
\* session is served (no ceilings, a congestion factory; requested rates of
\* 0 or 1): the handlers of the streams read no rate.
InitTunnel ==
  /\ entry = "tunnel"
  /\ server \in {s \in Servers : s.sendBPS = 0 /\ s.recvBPS = 0 /\ s.congestionFactory}
  /\ ctrlIn \in {h \in ControlInputs : h.SendBPS <= 1 /\ h.RecvBPS <= 1}
  /\ cs = InitSession
  /\ streams = [i \in StreamIds |-> InitStream]
  /\ socks = NoSocksServer
  /\ client = InitConn
  /\ pipe = InitPipe

\* The SOCKS5 front-end in every configuration.
InitSocks ==
  /\ entry = "socks"
  /\ socks \in SocksServers
  /\ client = InitConn
  /\ pipe = InitPipe
  /\ server = NoServer
  /\ ctrlIn = NoHello
  /\ cs = InitSession
  /\ streams = [i \in StreamIds |-> InitStream]

Init == InitTunnel \/ InitSocks

\* The steps of the control handshake and of the end of the session.
NextHello ==
  \/ Serve
  \/ handleClient_AcceptControl
  \/ handleControlStream_Unpack
  \/ handleControlStream_Auth
  \/ handleControlStream_Pack
  \/ handleControlStream_Return
  \/ handleClient_AcceptStreamError

\* The steps of the tunnel server.
NextTunnel ==
  \/ Serve
  \/ handleClient_AcceptControl
  \/ handleControlStream_Unpack
  \/ handleControlStream_Auth
  \/ handleControlStream_Pack
  \/ handleControlStream_Return
  \/ handleClient_AcceptStream
  \/ handleClient_AcceptStreamError
  \/ \E i \in StreamIds : handleStream_Unpack(i)
  \/ \E i \in StreamIds : handleTCP_Split(i)
  \/ \E i \in StreamIds : handleTCP_Lookup(i)
  \/ \E i \in StreamIds : handleTCP_Switch(i)
  \/ \E i \in StreamIds : handleTCP_Pack(i)
  \/ \E i \in StreamIds : handleTCP_Pipe(i)

\* The steps of the SOCKS5 front-end.
NextSocks ==
  \/ ListenAndServe_Accept
  \/ ListenAndServe_SetDeadline
  \/ negotiate_Methods
  \/ negotiate_UserPass
  \/ handle
  \/ socks5_handleTCP_Lookup
  \/ socks5_handleTCP_Switch
  \/ \E d \in Dirs : pipePair_Read(d)
  \/ \E d \in Dirs : pipePair_Write(d)
  \/ \E d \in Dirs : pipePair_Send(d)
  \/ pipePair_Return
  \/ ListenAndServe_Close

Next == NextTunnel \/ NextSocks

\* Either server, one peer.
Spec == Init /\ [][Next]_vars

\* The tunnel server, one session.
SpecTunnel == InitTunnel /\ [][NextTunnel]_vars

\* The SOCKS5 front-end, one connection.
SpecSocks == InitSocks /\ [][NextSocks]_vars

\* The control handshake of the tunnel server.
SpecHello == InitHello /\ [][NextHello]_vars

\* The SOCKS5 front-end without an ACL engine and without a timeout.
InitRelay ==
  /\ InitSocks
  /\ ~socks.ACLEngine
  /\ socks.TCPTimeout = 0

\* The scheduler lets every goroutine that can take a step of its own take
\* it: a send on errChan that has room, the receive of pipePair and the
\* returns after it, and a Read or Write of an endpoint that is closed, which
\* fails at once.  A Read or Write of an open endpoint waits for the peer.
Fairness ==
  /\ \A d \in Dirs : WF_vars(pipePair_Read(d) /\ pipe.closed[Src(d)])
  /\ \A d \in Dirs : WF_vars(pipePair_Write(d) /\ pipe.closed[Dst(d)])
  /\ \A d \in Dirs : WF_vars(pipePair_Send(d))
  /\ WF_vars(pipePair_Return)
  /\ WF_vars(ListenAndServe_Close)

\* The relay of the SOCKS5 front-end under a fair scheduler.
SpecRelay == InitRelay /\ [][NextSocks]_vars /\ Fairness

(***************************************************************************)
(* Properties.                                                             *)
(***************************************************************************)
Count(log, event) == Cardinality({k \in 1..Len(log) : log[k] = event})

\* The positions of an event in a log.
Positions(log, event) == {k \in 1..Len(log) : log[k] = event}

\* min(requested, ceiling), a ceiling of 0 being infinite.
MinRate(requested, ceiling) ==
  IF ceiling = 0 THEN requested
  ELSE IF requested <= ceiling THEN requested ELSE ceiling

\* C1: in the control handshake, for a client hello with both rates > 0, the
\* rates given to the authentication capability and written in the server
\* hello are SendBPS = min(requested RecvBPS, send ceiling or infinity) and
\* RecvBPS = min(requested SendBPS, recv ceiling or infinity), each direction
\* on its own; so no advertised rate is above a non-zero ceiling or above the
\* client's request.
C1_NegotiatedRates ==
  LET send == MinRate(ctrlIn.RecvBPS, server.sendBPS)
      recv == MinRate(ctrlIn.SendBPS, server.recvBPS)
  IN /\ \A k \in 1..Len(cs.authCalls) :
          cs.authCalls[k].sSend = send /\ cs.authCalls[k].sRecv = recv
     /\ \A k \in 1..Len(cs.helloOut) :
          LET h == cs.helloOut[k]
          IN /\ h.SendBPS = send /\ h.RecvBPS = recv
             /\ h.SendBPS <= ctrlIn.RecvBPS /\ h.RecvBPS <= ctrlIn.SendBPS
             /\ server.sendBPS > 0 => h.SendBPS <= server.sendBPS
             /\ server.recvBPS > 0 => h.RecvBPS <= server.recvBPS
     /\ ( /\ ctrlIn.kind = "hello" /\ ctrlIn.SendBPS > 0 /\ ctrlIn.RecvBPS > 0
          /\ cs.pc \in {"Pack", "SetCongestion", "AcceptStream"} )
        => Len(cs.authCalls) = 1
     /\ cs.pc \in {"SetCongestion", "AcceptStream"} => Len(cs.helloOut) = 1

\* A server hello was written with the send direction clamped to the ceiling
\* and the receive direction left at the request.
C1_Witness ==
  /\ cs.helloOut # <<>>
  /\ server.sendBPS > 0 /\ ctrlIn.RecvBPS > server.sendBPS
  /\ server.recvBPS > 0 /\ ctrlIn.SendBPS < server.recvBPS

\* C2: a client hello with SendBPS = 0 or RecvBPS = 0 is rejected at once:
\* the authentication capability is never invoked, no server hello is
\* written, no congestion controller is attached, and the session is closed
\* with the protocol-error reason.
C2_ZeroRateRejected ==
  (ctrlIn.kind = "hello" /\ (ctrlIn.SendBPS = 0 \/ ctrlIn.RecvBPS = 0))
  => /\ cs.authCalls = <<>>
     /\ cs.helloOut = <<>>
     /\ cs.congestion = <<>>
     /\ cs.pc \in {"Serve", "AcceptControl", "Unpack", "return"}
     /\ cs.pc = "return"
        => cs.closeCalls = <<[code |-> closeErrorCodeProtocol, reason |-> "protocol error"]>>

\* A hello asking for a zero send rate and a non-zero receive rate was refused.
C2_Witness ==
  /\ ctrlIn.kind = "hello" /\ ctrlIn.SendBPS = 0 /\ ctrlIn.RecvBPS > 0
  /\ cs.pc = "return"

\* The authentication capability was asked and refused the client.
AuthRejected == cs.authCalls # <<>> /\ ~cs.ok

\* The server hello of a refusal: accepted = false, the clamped rates, the
\* message of the authentication capability.
RejectHello ==
  [OK |-> FALSE, SendBPS |-> cs.authCalls[1].sSend, RecvBPS |-> cs.authCalls[1].sRecv,
   Message |-> cs.msg]

\* C3, as claimed: whenever the authentication capability is invoked and
\* rejects the client, the server writes a server hello (accepted = false,
\* clamped rates, message) and then closes the session with "auth error".
C3_AuthRejectedAsClaimed ==
  (AuthRejected /\ cs.pc = "return")
  => /\ cs.helloOut = <<RejectHello>>
     /\ cs.closeCalls = <<[code |-> closeErrorCodeAuth, reason |-> "auth error"]>>

\* C3, amended: whenever the authentication capability is invoked and rejects
\* the client, the session is never served, and either the server hello
\* (accepted = false, clamped rates, message) is written and the session is
\* then closed with "auth error", or writing the server hello fails, nothing
\* is written, and the session is closed with "protocol error".
C3_AuthRejected ==
  AuthRejected
  => /\ cs.pc \in {"Pack", "SetCongestion", "return"}
     /\ cs.accepted = 0
     /\ cs.congestion = <<>>
     /\ cs.pc = "SetCongestion" => cs.helloOut = <<RejectHello>>
     /\ cs.pc = "return"
        => \/ /\ cs.helloOut = <<RejectHello>>
              /\ cs.closeCalls = <<[code |-> closeErrorCodeAuth, reason |-> "auth error"]>>
           \/ /\ cs.helloOut = <<>>
              /\ cs.closeCalls =
                   <<[code |-> closeErrorCodeProtocol, reason |-> "protocol error"]>>

\* A rejected client was sent the server hello and closed with the auth code.
C3_Witness ==
  /\ AuthRejected /\ cs.pc = "return"
  /\ cs.helloOut # <<>>
  /\ cs.closeCalls = <<[code |-> closeErrorCodeAuth, reason |-> "auth error"]>>

\* The control handshake of the session completed with the authentication
\* capability accepting.
HandshakeAccepted ==
  /\ Len(cs.authCalls) = 1 /\ cs.ok
  /\ Len(cs.helloOut) = 1 /\ cs.helloOut[1].OK

\* C4: no handleStream is started before the control handshake of the
\* session has completed with the authentication capability accepting; in a
\* session closed for a handshake failure or for a rejected authentication no
\* stream is ever accepted or dispatched.
C4_HandshakeBeforeStreams ==
  /\ \A i \in StreamIds : streams[i].pc # "none" => HandshakeAccepted
  /\ cs.accepted > 0 => HandshakeAccepted
  /\ (\E k \in 1..Len(cs.closeCalls) :
         cs.closeCalls[k].code \in {closeErrorCodeProtocol, closeErrorCodeAuth})
     => /\ cs.accepted = 0
        /\ \A i \in StreamIds : streams[i].pc = "none"

\* A stream of an accepted session was dispatched and handled to its end.
C4_Witness == \E i \in StreamIds : streams[i].pc = "done" /\ cs.ok

\* C5: on every stream the events are ordered: one StreamRequest is read
\* first, then at most one StreamResponse is written, and the relay runs only
\* after a StreamResponse with accepted = true was written without error.
C5_StreamOrder ==
  \A i \in StreamIds :
    LET st == streams[i]
    IN /\ st.log # <<>> => st.log[1] = "Unpack"
       /\ Count(st.log, "Unpack") <= 1
       /\ Count(st.log, "Pack") <= 1
       /\ Len(st.responses) = Count(st.log, "Pack")
       /\ Count(st.log, "Pipe2Way") <= 1
       /\ \A k \in Positions(st.log, "Pipe2Way") :
            /\ \E j \in Positions(st.log, "Pack") : j < k
            /\ st.responses = <<[OK |-> TRUE, Message |-> "", err |-> "nil"]>>
       /\ st.pc = "Pipe" => st.responses = <<[OK |-> TRUE, Message |-> "", err |-> "nil"]>>

\* A stream relayed after its accepting response.
C5_Witness == \E i \in StreamIds : Count(streams[i].log, "Pipe2Way") = 1

\* C6, as claimed: for every TCP stream request at the tunnel server, the
\* request hook and the error hook are each invoked exactly once, on every
\* path through handleTCP.
C6_HooksOncePerRequest ==
  \A i \in StreamIds :
    (streams[i].pc = "done" /\ streams[i].reqAddr # <<>>)
    => /\ Len(streams[i].requestCalls) = 1
       /\ Len(streams[i].errorCalls) = 1

\* The events of handleTCP at the SOCKS front-end: the log without the
\* closing of the client connection that follows its return.
HandleTCPLog == SelectSeq(client.log, LAMBDA e : e # "c.Close")

\* C7: at the SOCKS front-end, for every CONNECT request that reaches
\* handleTCP, the request hook is invoked exactly once, before any outbound
\* dial or SOCKS reply, and the error hook is invoked exactly once, after it
\* and as the last event of handleTCP, for every action and every outcome.
C7_SocksHooks ==
  client.r.Cmd = CmdConnect
  => /\ Len(client.requestCalls) = Count(client.log, "TCPRequestFunc")
     /\ Len(client.errorCalls) = Count(client.log, "TCPErrorFunc")
     /\ client.pc # "handleTCP"
        => /\ Len(client.requestCalls) = 1
           /\ HandleTCPLog[1] = "TCPRequestFunc"
     /\ client.pc \in {"handleTCP", "Switch", "pipePair"} => client.errorCalls = <<>>
     /\ client.pc \in {"Close", "done"}
        => /\ Len(client.errorCalls) = 1
           /\ HandleTCPLog[Len(HandleTCPLog)] = "TCPErrorFunc"

\* handleTCP returned from a relay, both hooks called.
C7_Witness ==
  /\ client.pc = "done"
  /\ Count(client.log, "pipePair") = 1
  /\ Len(client.errorCalls) = 1

\* C8: at both entry points, when the decision is Block, no outbound
\* connection is dialed and no relay is started for the request, and a
\* failure acknowledgment is sent to the upstream peer.
C8_BlockRefuses ==
  /\ \A i \in StreamIds :
       streams[i].action = ActionBlock
       => /\ streams[i].dials = <<>> /\ streams[i].conn = <<>>
          /\ Count(streams[i].log, "Dial") = 0
          /\ Count(streams[i].log, "Pipe2Way") = 0
          /\ streams[i].pc \in {"Switch", "done"}
          /\ streams[i].pc = "done"
             => /\ Len(streams[i].responses) = 1
                /\ ~streams[i].responses[1].OK
  /\ client.action = ActionBlock
     => /\ client.dials = <<>> /\ client.rc = <<>>
        /\ Count(client.log, "Dial") = 0
        /\ \A d \in Dirs : pipe.pc[d] = "idle"
        /\ client.pc \in {"Switch", "done"}
        /\ client.pc = "done"
           => /\ client.writes # <<>>
              /\ client.writes[Len(client.writes)] = [t |-> "Reply", v |-> RepHostUnreachable]
              /\ Count(client.log, "sendReply") = 1

\* A blocked request was refused at the tunnel server.
C8_Witness ==
  \E i \in StreamIds :
    /\ streams[i].action = ActionBlock /\ streams[i].pc = "done"
    /\ streams[i].responses # <<>>

\* C9, as claimed: at both entry points, when the ACL decision is Block, the
\* error hook is invoked for the request and reports a non-nil "blocked"
\* error.
C9_BlockReported ==
  /\ \A i \in StreamIds :
       (streams[i].action = ActionBlock /\ streams[i].pc = "done")
       => /\ Len(streams[i].errorCalls) = 1
          /\ streams[i].errorCalls[1].err # "nil"
  /\ (client.action = ActionBlock /\ client.pc = "done")
     => /\ Len(client.errorCalls) = 1
        /\ client.errorCalls[1].err = "blocked in ACL"

\* The address is host:port for the given host and port number.
IsHostPort(addr, host, port) ==
  LET sp == SplitHostPort(addr)
  IN /\ sp.err = "nil"
     /\ sp.host = host
     /\ sp.port # <<>>
     /\ \A k \in 1..Len(sp.port) : IsDigit(sp.port[k])
     /\ Atoi(sp.port) = port

\* C10: at both entry points, when the decision is Hijack with argument A for
\* a request whose destination port is P, the only address dialed is A:P,
\* whatever the original host was.
C10_HijackKeepsPort ==
  /\ \A i \in StreamIds : \A d \in Destinations :
       ( /\ streams[i].action = ActionHijack
         /\ streams[i].reqAddr = JoinHostPort(d.host, Itoa(d.port))
         /\ streams[i].pc # "Switch" )
       => /\ Len(streams[i].dials) = 1
          /\ IsHostPort(streams[i].dials[1], streams[i].arg, d.port)
  /\ (client.action = ActionHijack /\ client.pc # "Switch")
     => /\ Len(client.dials) = 1
        /\ client.dials[1].via = "net.Dial"
        /\ IsHostPort(client.dials[1].addr, client.arg, Uint16(client.r.DstPort))

\* A request for a literal IP was hijacked to an IPv6 host at the tunnel
\* server.
C10_Witness ==
  \E i \in StreamIds :
    /\ streams[i].action = ActionHijack
    /\ streams[i].ip
    /\ streams[i].arg = <<":", ":", "2">>
    /\ streams[i].dials # <<>>

\* The addresses the tunnel server dials for a decision, lines 186-220.
DialedFor(st, action, arg) ==
  CASE action \in {ActionDirect, ActionProxy} -> <<st.reqAddr>>
    [] action = ActionHijack -> <<JoinHostPort(arg, st.port)>>
    [] OTHER -> <<>>

\* The dials of the SOCKS front-end for a decision, lines 166-208.
SocksDialedFor(cn, action, arg) ==
  CASE action = ActionDirect -> <<[via |-> "net.Dial", addr |-> cn.addr]>>
    [] action = ActionProxy -> <<[via |-> "HyClient.DialTCP", addr |-> cn.addr]>>
    [] action = ActionHijack -> <<[via |-> "net.Dial", addr |-> JoinHostPort(arg, cn.port)]>>
    [] OTHER -> <<>>

\* C11: without an ACL engine every request dispatched at the tunnel server
\* has action Direct and an empty argument and is dialed directly, and every
\* CONNECT request at the SOCKS front-end has action Proxy and an empty
\* argument and is dialed through the tunnel client; with an ACL engine the
\* action and argument reported to the request hook and acted on are exactly
\* those the lookup returned.
C11_DefaultOrLookup ==
  /\ \A i \in StreamIds :
       LET st == streams[i]
       IN st.pc \in {"Switch", "Pack", "Pipe"} \/ (st.pc = "done" /\ st.requestCalls # <<>>)
          => /\ Len(st.requestCalls) = 1
             /\ IF server.aclEngine
                THEN /\ Len(st.lookups) = 1
                     /\ st.requestCalls[1].action = st.lookups[1].action
                     /\ st.requestCalls[1].arg = st.lookups[1].arg
                     /\ st.pc # "Switch"
                        => st.dials = DialedFor(st, st.lookups[1].action, st.lookups[1].arg)
                ELSE /\ st.lookups = <<>>
                     /\ st.requestCalls[1].action = ActionDirect
                     /\ st.requestCalls[1].arg = <<>>
                     /\ st.pc # "Switch" => st.dials = <<st.reqAddr>>
  /\ client.pc \in {"Switch", "pipePair", "Close"} \/ (client.pc = "done" /\ client.requestCalls # <<>>)
     => /\ Len(client.requestCalls) = 1
        /\ IF socks.ACLEngine
           THEN /\ Len(client.lookups) = 1
                /\ client.requestCalls[1].action = client.lookups[1].action
                /\ client.requestCalls[1].arg = client.lookups[1].arg
                /\ client.pc # "Switch"
                   => client.dials = SocksDialedFor(client, client.lookups[1].action,
                                                    client.lookups[1].arg)
           ELSE /\ client.lookups = <<>>
                /\ client.requestCalls[1].action = ActionProxy
                /\ client.requestCalls[1].arg = <<>>
                /\ client.pc # "Switch"
                   => client.dials = <<[via |-> "HyClient.DialTCP", addr |-> client.addr]>>

\* A CONNECT request was dialed through the tunnel client by a front-end
\* without an ACL engine.
C11_Witness ==
  /\ ~socks.ACLEngine
  /\ client.r.Cmd = CmdConnect
  /\ client.dials # <<>>
  /\ client.requestCalls # <<>>

\* C12: at both entry points, when the outbound dial of a Direct, Proxy or
\* Hijack decision fails, a failure acknowledgment is sent to the upstream
\* peer, the dial error is reported to the error hook and no relay is started
\* for the request; when the dial succeeds the success acknowledgment is
\* sent before the relay starts.
C12_DialOutcome ==
  /\ \A i \in StreamIds :
       LET st == streams[i]
       IN /\ st.dials # <<>> => st.action \in {ActionDirect, ActionProxy, ActionHijack}
          /\ (st.dials # <<>> /\ st.conn = <<>>)
             => /\ st.pc = "done"
                /\ Len(st.responses) = 1
                /\ ~st.responses[1].OK
                /\ Len(st.errorCalls) = 1
                /\ st.errorCalls[1].err = "dial error"
                /\ Count(st.log, "Pipe2Way") = 0
          /\ (st.pc = "Pipe" \/ Count(st.log, "Pipe2Way") > 0)
             => /\ st.conn # <<>>
                /\ Len(st.responses) = 1
                /\ st.responses[1].OK
                /\ \A k \in Positions(st.log, "Pipe2Way") :
                     \E d \in Positions(st.log, "Dial"), a \in Positions(st.log, "Pack") :
                       d < a /\ a < k
  /\ client.dials # <<>> => client.action \in {ActionDirect, ActionProxy, ActionHijack}
  /\ (client.dials # <<>> /\ client.rc = <<>>)
     => /\ client.pc = "done"
        /\ client.writes[Len(client.writes)] = [t |-> "Reply", v |-> RepHostUnreachable]
        /\ Len(client.errorCalls) = 1
        /\ client.errorCalls[1].err = "dial error"
        /\ Count(client.log, "pipePair") = 0
        /\ \A d \in Dirs : pipe.pc[d] = "idle"
  /\ ((\E d \in Dirs : pipe.pc[d] # "idle") \/ Count(client.log, "pipePair") > 0)
     => /\ client.rc # <<>>
        /\ client.writes[Len(client.writes)] = [t |-> "Reply", v |-> RepSuccess]
        /\ \E d \in Positions(client.log, "Dial"), a \in Positions(client.log, "sendReply") :
             /\ d < a
             /\ \A k \in Positions(client.log, "pipePair") : a < k

\* A dial failed at the SOCKS front-end and was reported to the error hook.
C12_Witness ==
  /\ client.dials # <<>>
  /\ client.rc = <<>>
  /\ client.errorCalls # <<>>

\* The relay ran without a fault: no write failed, and every error of a
\* goroutine is the end of its source or the closing of the endpoints after
\* the relay returned.
NoFault == \A d \in Dirs : pipe.err[d] \in {"nil", "EOF", "closed"}

\* C13, as claimed: at the SOCKS front-end without an ACL engine, a CONNECT
\* request whose dial through the tunnel client succeeds is sent the success
\* reply and relayed, and when the relay ends because one side closed
\* normally the error hook reports no error (nil).
C13_NormalCloseReportsNil ==
  ( /\ ~socks.ACLEngine
    /\ client.r.Cmd = CmdConnect
    /\ Count(client.log, "pipePair") = 1
    /\ NoFault )
  => /\ client.dials = <<[via |-> "HyClient.DialTCP", addr |-> client.addr]>>
     /\ \E k \in 1..Len(client.writes) : client.writes[k] = [t |-> "Reply", v |-> RepSuccess]
     /\ Len(client.errorCalls) = 1
     /\ client.errorCalls[1].err = "nil"

\* C14: at the SOCKS front-end, a client whose username/password s.AuthFunc
\* refuses is sent the failure status and the connection is aborted: no
\* request is read, the ACL engine and the hooks are never invoked and no
\* outbound dial or relay happens on the connection; with username/password
\* configured a request is handled only after the success status.
C14_AuthFailureAborts ==
  /\ (client.authFuncCalls # <<>> /\ ~client.authFuncCalls[1])
     => /\ client.pc = "done"
        /\ client.writes[Len(client.writes)] =
             [t |-> "UserPassNegotiationReply", v |-> UserPassStatusFailure]
        /\ client.r = NoRequest
        /\ client.lookups = <<>>
        /\ client.requestCalls = <<>> /\ client.errorCalls = <<>>
        /\ client.dials = <<>> /\ client.rc = <<>>
        /\ \A d \in Dirs : pipe.pc[d] = "idle"
  /\ ( /\ socks.Method = MethodUsernamePassword
       /\ client.pc = "request" \/ client.r # NoRequest )
     => /\ client.authFuncCalls = <<TRUE>>
        /\ \E k \in 1..Len(client.writes) :
             client.writes[k] = [t |-> "UserPassNegotiationReply", v |-> UserPassStatusSuccess]
        /\ \A k \in 1..Len(client.writes) :
             client.writes[k] # [t |-> "UserPassNegotiationReply", v |-> UserPassStatusFailure]
  /\ Len(client.authFuncCalls) <= 1

\* A client was refused by s.AuthFunc and the connection closed.
C14_Witness ==
  /\ client.authFuncCalls = <<FALSE>>
  /\ client.pc = "done"
  /\ Count(client.log, "c.Close") = 1

\* C15: at the SOCKS front-end, a request with any command other than CONNECT
\* (UDP associate included) is answered with the command-not-supported reply
\* and the connection is dropped: no ACL lookup, no hook, no outbound dial
\* and no relay occur for it.
C15_OnlyConnect ==
  (client.r # NoRequest /\ client.r.Cmd # CmdConnect)
  => /\ client.pc = "done"
     /\ client.writes[Len(client.writes)] = [t |-> "Reply", v |-> RepCommandNotSupported]
     /\ Count(client.log, "sendReply") = 1
     /\ client.log[Len(client.log)] = "c.Close"
     /\ client.lookups = <<>>
     /\ client.requestCalls = <<>> /\ client.errorCalls = <<>>
     /\ client.dials = <<>> /\ client.rc = <<>>
     /\ \A d \in Dirs : pipe.pc[d] = "idle"

\* A UDP associate request was refused.
C15_Witness ==
  /\ client.r.Cmd = CmdUDP
  /\ client.pc = "done"
  /\ client.writes # <<>>

\* The replies of the method negotiation written to the client, in order.
NegotiationReplies == SelectSeq(client.writes, LAMBDA w : w.t = "NegotiationReply")

\* The configured method is among the methods the client offered.
Offered == \E k \in 1..Len(client.methods) : client.methods[k] = socks.Method

\* C16, as claimed: once the negotiation request is read, the reply choosing
\* the configured method is always written; when the configured method is
\* not among the offered ones the unsupported-methods reply is written first
\* and the choosing reply follows it; when it is offered only the choosing
\* reply is written.
C16_RepliesAsClaimed ==
  (client.methods # <<>> /\ client.pc # "negotiate")
  => NegotiationReplies =
       IF Offered
       THEN <<[t |-> "NegotiationReply", v |-> socks.Method]>>
       ELSE <<[t |-> "NegotiationReply", v |-> MethodUnsupportAll],
              [t |-> "NegotiationReply", v |-> socks.Method]>>

\* C16, amended: as claimed, except that negotiate returns when the write of
\* the unsupported-methods reply fails, and then no choosing reply is
\* written.
C16_Replies ==
  (client.methods # <<>> /\ client.pc # "negotiate")
  => /\ Offered
        => NegotiationReplies = <<[t |-> "NegotiationReply", v |-> socks.Method]>>
     /\ ~Offered
        => \/ NegotiationReplies =
                <<[t |-> "NegotiationReply", v |-> MethodUnsupportAll],
                  [t |-> "NegotiationReply", v |-> socks.Method]>>
           \/ /\ client.writes = <<[t |-> "NegotiationReply", v |-> MethodUnsupportAll]>>
              /\ client.negotiateErr = "write error"
              /\ client.pc = "done"

\* A client that did not offer the configured method was sent both replies
\* and went on to send its request.
C16_Witness ==
  /\ ~Offered
  /\ Len(NegotiationReplies) = 2
  /\ client.r # NoRequest

\* pipePair has returned its error to handleTCP.
Returned == Count(client.log, "pipePair") = 1

\* C17, as claimed: under every interleaving of the two copying goroutines,
\* once pipePair has returned its error every byte either goroutine has read
\* from its source endpoint has been written to the opposite endpoint, in
\* order and exactly once.
C17_NoByteLost ==
  Returned => \A d \in Dirs : pipe.out[Dst(d)] = pipe.read[d]

Other(d) == IF d = "TCPToStream" THEN "StreamToTCP" ELSE "TCPToStream"

\* What pipePair returned is what the error hook was given.
ReportedByRelay ==
  /\ client.closeErr = pipe.sent[1].err
  /\ client.closeErr # "nil"
  /\ Len(client.errorCalls) = 1
  /\ client.errorCalls[1].err = client.closeErr

\* A write failed in one goroutine and the other one did not fail before
\* pipePair returned.
WriteFailureInjected ==
  \E d \in Dirs : /\ pipe.err[d] = "write error"
                   /\ pipe.err[Other(d)] \in {"nil", "closed"}

\* C18: pipePair returns the first error a goroutine sends, which is the
\* error of a Read or a Write of that goroutine; when a write fails in one
\* goroutine (and nothing failed in the other) pipePair returns, both
\* goroutines end, and the error pipePair returns and the error hook is
\* given is that failure.
C18_FirstError ==
  /\ [](Returned
          => /\ pipe.sent # <<>>
             /\ pipe.sent[1].err = pipe.err[pipe.sent[1].d]
             /\ pipe.sent[1].err \in ReadErrs \cup {"write error"}
             /\ ReportedByRelay
             /\ WriteFailureInjected => client.closeErr = "write error")
  /\ (\E d \in Dirs : pipe.err[d] = "write error")
       ~> (Returned /\ \A d \in Dirs : pipe.pc[d] = "done")

\* A write failed, pipePair returned that failure and both goroutines ended.
C18_Witness ==
  /\ Returned
  /\ WriteFailureInjected
  /\ client.errorCalls # <<>>
  /\ client.errorCalls[1].err = "write error"
  /\ \A d \in Dirs : pipe.pc[d] = "done"

\* The handler of stream i takes a step.
StreamStep(i) == streams[i].pc \notin {"none", "done"} /\ streams'[i] # streams[i]

\* The handler of the stream ended without a relay or with a relay's error.
StreamFailed(st) ==
  /\ st.pc = "done"
  /\ \/ Count(st.log, "Pipe2Way") = 0
     \/ st.errorCalls[Len(st.errorCalls)].err # "nil"

\* The session was closed by handleClient for the reason of the code.
ClosedByHandleClient ==
  /\ Len(cs.closeCalls) <= 1
  /\ cs.closeCalls # <<>> => cs.pc = "return"
  /\ \A k \in 1..Len(cs.closeCalls) :
       LET call == cs.closeCalls[k]
       IN \/ /\ call = [code |-> closeErrorCodeProtocol, reason |-> "protocol error"]
             /\ ~HandshakeAccepted
             /\ cs.accepted = 0
          \/ /\ call = [code |-> closeErrorCodeAuth, reason |-> "auth error"]
             /\ AuthRejected
             /\ cs.accepted = 0
          \/ /\ call = [code |-> closeErrorCodeGeneric, reason |-> ""]
             /\ HandshakeAccepted

\* C19: at the tunnel server a step of one stream's handler, a failure
\* included, never closes the session and leaves the sibling streams
\* unchanged; the session is closed only by handleClient, for a failed
\* handshake, a rejected authentication or a failed AcceptStream; and the
\* accept loop goes on dispatching streams whatever the handlers of earlier
\* streams did.
C19_StreamFailureContained ==
  /\ [][\A i \in StreamIds :
          StreamStep(i) => /\ cs' = cs
                           /\ \A j \in StreamIds \ {i} : streams'[j] = streams[j]]_vars
  /\ [][cs'.closeCalls # cs.closeCalls => streams' = streams]_vars
  /\ []ClosedByHandleClient
  /\ []((cs.pc = "AcceptStream" /\ cs.accepted < MaxStreams)
          => ENABLED handleClient_AcceptStream)

\* The handler of one stream failed, and the session then accepted another
\* stream, which is being served.
C19_Witness ==
  \E i, j \in StreamIds :
    /\ i < j
    /\ StreamFailed(streams[i])
    /\ streams[j].pc \notin {"none", "done"}
    /\ cs.closeCalls = <<>>

\* The sends of goroutine d on errChan.
Sends(d) == Cardinality({k \in 1..Len(pipe.sent) : pipe.sent[k].d = d})

\* C20: each of the two goroutines of pipePair sends at most one error on
\* errChan and then ends, so that a send never waits; once pipePair has
\* returned the first error and the endpoints are closed the Read or Write of
\* the remaining goroutine fails, its error is sent and never received, and
\* both goroutines end.
C20_GoroutinesEnd ==
  /\ [](\A d \in Dirs :
          /\ Sends(d) <= 1
          /\ pipe.pc[d] = "done" <=> Sends(d) = 1
          /\ pipe.pc[d] = "Send" => ENABLED pipePair_Send(d))
  /\ [](Len(pipe.errChan) <= ErrChanCap)
  /\ []((Returned /\ \A d \in Dirs : pipe.pc[d] = "done")
          => /\ Len(pipe.sent) = 2
             /\ pipe.errChan = <<pipe.sent[2].err>>
             /\ client.closeErr = pipe.sent[1].err
             /\ Len(client.errorCalls) = 1)
  /\ Returned ~> (\A d \in Dirs : pipe.pc[d] = "done")

\* pipePair returned, the endpoints were closed under a goroutine that was
\* still copying, and its error was sent and left on errChan.
C20_Witness ==
  /\ Returned
  /\ \A d \in Dirs : pipe.pc[d] = "done"
  /\ pipe.closed.conn /\ pipe.closed.stream
  /\ Len(pipe.errChan) = 1
  /\ pipe.errChan[1] = "closed"

=============================================================================
